---- MODULE Spec2Model ----
(***************************************************************************)
(* A model of src/telegram_bot.py: the admin registry (AdminManager), the  *)
(* sliding-window rate limiter (RateLimiter), the user-message relay       *)
(* (handle_user_message), the reply and broadcast conversations and the    *)
(* handler dispatch that main() registers.                                 *)
(*                                                                         *)
(* The Application is built without concurrent_updates, so updates are     *)
(* processed one at a time: every handler runs to completion before the    *)
(* next update is dispatched, and each handler is one action.              *)
(*                                                                         *)
(* Time is counted in ticks of 1/TicksPerSecond seconds, so that the       *)
(* float arithmetic on time.time() and its truncation by int() are kept.   *)
(***************************************************************************)
EXTENDS Integers, Sequences, FiniteSets, TLC

\* ------------------------------------------------------------------ bounds

\* Identities are 1..NumIds (users and admins share the namespace).
NumIds == 4
\* The identities that write to the bot as users: the last NumSenders ones.
NumSenders == 2
\* The identities that press buttons and write as admins in the conversations.
NumOperators == 1
\* Resolution of the clock: ticks per second.
TicksPerSecond == 2
\* The clock stops advancing at MaxTime ticks.
MaxTime == 9
\* The message collection holds at most MaxMessages documents.
MaxMessages == 2
\* RATE_LIMIT_MESSAGES and RATE_LIMIT_WINDOW (seconds) are read from the
\* environment; the model runs a scaled-down configuration.
RATE_LIMIT_MESSAGES == 2
RATE_LIMIT_WINDOW == 2

Ids == 1..NumIds
Senders == (NumIds - NumSenders + 1)..NumIds
\* The identities that operate the bot in the conversations: the first ones
Operators == 1..NumOperators
WindowTicks == RATE_LIMIT_WINDOW * TicksPerSecond

\* Conversation states (ConversationHandler.END is -1, no conversation is None)
WAITING_FOR_REPLY == 1
WAITING_FOR_BROADCAST == 2
CONFIRM_BROADCAST == 3
NoState == 0

\* Absent key of context.user_data
Absent == 0

\* Free texts a private chat can carry (non-command text messages)
Texts == {"hello", "Broadcast", "Dashboard", "Help"}
AdminMenuTexts == {"Dashboard", "Users", "Logs", "Add Admin", "Settings"}
UserMenuTexts == {"Send Message to Admin", "Help", "About"}

VARIABLES
    admins,           \* AdminManager._admins
    now,              \* time.time(), in ticks
    user_messages,    \* RateLimiter._user_messages : identity -> list of timestamps
    users,            \* db.users : identity -> "absent" | "active" | "blocked"
    messages,         \* db.messages : the appended documents, in order
    reply_state,      \* reply_conv._conversations : identity -> state
    broadcast_state,  \* broadcast_conv._conversations : identity -> state
    user_data,        \* context.user_data : identity -> [reply_to_user, broadcast_message]
    admitted,         \* history: identity -> timestamps of its admitted checks
                      \*   that are newer than now - window
    was_denied,       \* history: identity -> a check of it was denied
    pending,          \* the handlers suspended at an await : identity -> record
    retry_at,         \* history: identity -> <<>>, or <<d>> when it was denied
                      \*   and told to wait until d at the earliest, or
                      \*   <<d, t>> when it was then admitted at t >= d
    last              \* history: what the last handled update did

vars == <<admins, now, user_messages, users, messages, reply_state,
          broadcast_state, user_data, pending, admitted, was_denied, retry_at,
          last>>

rate_vars == <<user_messages, admitted, was_denied, retry_at>>
store_vars == <<users, messages>>
conv_vars == <<reply_state, broadcast_state, user_data>>

\* ------------------------------------------------------------ AdminManager

is_admin_Always(S, user_id) == TRUE

is_admin(S, user_id) == user_id \in S

add_admin_AlwaysTrue(S, user_id) ==
    [result |-> TRUE, admins |-> S \cup {user_id}]

add_admin(S, user_id) ==
    IF user_id \notin S
    THEN [result |-> TRUE, admins |-> S \cup {user_id}]
    ELSE [result |-> FALSE, admins |-> S]

remove_admin_NoLastGuard(S, user_id) ==
    IF user_id \in S
    THEN [result |-> TRUE, admins |-> S \ {user_id}]
    ELSE [result |-> FALSE, admins |-> S]

remove_admin(S, user_id) ==
    IF user_id \in S /\ Cardinality(S) > 1
    THEN [result |-> TRUE, admins |-> S \ {user_id}]
    ELSE [result |-> FALSE, admins |-> S]

get_admins(S) == S

\* ------------------------------------------------------------- RateLimiter

Min(S) == CHOOSE x \in S : \A y \in S : x <= y
Max2(a, b) == IF a >= b THEN a ELSE b
SeqRange(s) == {s[i] : i \in 1..Len(s)}

\* int(x) of a float x given in ticks: truncation toward zero, in seconds
IntSeconds(ticks) ==
    IF ticks >= 0 THEN ticks \div TicksPerSecond
    ELSE -((-ticks) \div TicksPerSecond)

Prune(window, current_time) ==
    SelectSeq(window, LAMBDA t : t > current_time - WindowTicks)

check_rate_limit_NoPrune(window, current_time) ==
    IF Len(window) >= RATE_LIMIT_MESSAGES
    THEN [allowed |-> FALSE,
          wait |-> Max2(0, IntSeconds(Min(SeqRange(window)) + WindowTicks
                                        - current_time) + 1),
          window |-> window]
    ELSE [allowed |-> TRUE, wait |-> 0,
          window |-> Append(window, current_time)]

check_rate_limit_OffByOne(window, current_time) ==
    LET kept == Prune(window, current_time) IN
    IF Len(kept) > RATE_LIMIT_MESSAGES
    THEN [allowed |-> FALSE,
          wait |-> Max2(0, IntSeconds(Min(SeqRange(kept)) + WindowTicks
                                        - current_time) + 1),
          window |-> kept]
    ELSE [allowed |-> TRUE, wait |-> 0,
          window |-> Append(kept, current_time)]

check_rate_limit_CountsDenied(window, current_time) ==
    LET kept == Prune(window, current_time) IN
    IF Len(kept) >= RATE_LIMIT_MESSAGES
    THEN [allowed |-> FALSE,
          wait |-> Max2(0, IntSeconds(Min(SeqRange(kept)) + WindowTicks
                                        - current_time) + 1),
          window |-> Append(kept, current_time)]
    ELSE [allowed |-> TRUE, wait |-> 0,
          window |-> Append(kept, current_time)]

check_rate_limit_NoPlusOne(window, current_time) ==
    LET kept == Prune(window, current_time) IN
    IF Len(kept) >= RATE_LIMIT_MESSAGES
    THEN [allowed |-> FALSE,
          wait |-> Max2(0, IntSeconds(Min(SeqRange(kept)) + WindowTicks
                                        - current_time)),
          window |-> kept]
    ELSE [allowed |-> TRUE, wait |-> 0,
          window |-> Append(kept, current_time)]

check_rate_limit(window, current_time) ==
    LET kept == Prune(window, current_time) IN
    IF Len(kept) >= RATE_LIMIT_MESSAGES
    THEN [allowed |-> FALSE,
          wait |-> Max2(0, IntSeconds(Min(SeqRange(kept)) + WindowTicks
                                        - current_time) + 1),
          window |-> kept]
    ELSE [allowed |-> TRUE, wait |-> 0,
          window |-> Append(kept, current_time)]

\* ------------------------------------------------------------------ Store

\* find_one_and_update with upsert: a new document is inserted with
\* is_blocked False ($setOnInsert); an existing one keeps its is_blocked
create_or_update_ResetsBlock(db_users, user_id) ==
    [db_users EXCEPT ![user_id] = "active"]

create_or_update(db_users, user_id) ==
    [db_users EXCEPT ![user_id] = IF @ = "absent" THEN "active" ELSE @]

\* get_by_id(...).is_blocked, False when there is no document
is_blocked_Never(db_users, user_id) == FALSE

is_blocked(db_users, user_id) == db_users[user_id] = "blocked"

\* update_one without upsert: no document, no change
block_user(db_users, user_id) ==
    [db_users EXCEPT ![user_id] = IF @ = "absent" THEN @ ELSE "blocked"]

unblock_user(db_users, user_id) ==
    [db_users EXCEPT ![user_id] = IF @ = "absent" THEN @ ELSE "active"]

\* count_documents({}) : every document, blocked or not
get_user_count(db_users) == Cardinality({u \in Ids : db_users[u] # "absent"})

\* find({"is_blocked": False})
get_all_active_IncludesBlocked(db_users) ==
    {u \in Ids : db_users[u] # "absent"}

get_all_active(db_users) == {u \in Ids : db_users[u] = "active"}

\* insert_one
save_message(log, user_id, message_text, direction, admin_id) ==
    Append(log, [user_id |-> user_id, message_text |-> message_text,
                 direction |-> direction, admin_id |-> admin_id])

\* -------------------------------------------------------------- Messenger

\* One context.bot.send_message per target, in the order of iteration; the
\* call raises for the targets in failing. An attempt is recorded whether or
\* not it raised.
RECURSIVE send_each_StopAtFailure(_, _, _)
send_each_StopAtFailure(targets, kind, failing) ==
    IF targets = {} THEN <<>>
    ELSE LET t == Min(targets) IN
         IF t \in failing
         THEN <<[to |-> t, kind |-> kind, ok |-> FALSE]>>
         ELSE <<[to |-> t, kind |-> kind, ok |-> TRUE]>>
                  \o send_each_StopAtFailure(targets \ {t}, kind, failing)

RECURSIVE send_each(_, _, _)
send_each(targets, kind, failing) ==
    IF targets = {} THEN <<>>
    ELSE LET t == Min(targets) IN
         <<[to |-> t, kind |-> kind, ok |-> t \notin failing]>>
             \o send_each(targets \ {t}, kind, failing)

\* sent_count of the fan-out loop: incremented after each send_message that
\* did not raise
sent_count_CountsAttempts(sends) == Len(sends)

sent_count(sends) == Cardinality({i \in 1..Len(sends) : sends[i].ok})

\* failed of the broadcast loop: incremented in the except branch
failed_count(sends) == Cardinality({i \in 1..Len(sends) : ~sends[i].ok})

\* Counting delivery attempts, for the properties
Attempts(sends, target) ==
    Cardinality({i \in 1..Len(sends) : sends[i].to = target})
Successes(sends) == Cardinality({i \in 1..Len(sends) : sends[i].ok})
Failures(sends) == Cardinality({i \in 1..Len(sends) : ~sends[i].ok})

\* ------------------------------------------------------- history of events

\* The record of one handled update: the handler that ran, the sender, the
\* argument (a target identity, 0 for none), the text, the boolean a registry
\* call returned ("" when none was made), the notice sent back to the sender,
\* the retry_after of a denial, the user count shown, the delivery attempts
\* (context.bot.send_message calls) made, the sent and failed tallies, whether the
\* sender's user document was upserted, whether the rate limiter was called,
\* and the handler, sender, argument and result of the update handled just
\* before, when that was an admin command, a reply text or a cancelled reply.
PrevTracked == {"add_admin_command", "remove_admin_command",
                "handle_admin_reply", "cancel_reply"}

Ev(handler, actor, arg, text) ==
    [handler |-> handler, actor |-> actor, arg |-> arg, text |-> text,
     result |-> "", notice |-> "", wait |-> 0, count |-> 0, sends |-> <<>>,
     sent |-> 0, failed |-> 0, upserted |-> FALSE, rl_checked |-> FALSE,
     prev |-> IF last.handler \in PrevTracked
              THEN <<last.handler, last.actor, last.arg, last.result>>
              ELSE <<"", 0, 0, "">>]

NoUserData == [reply_to_user |-> Absent, broadcast_message |-> ""]

\* No handler of the identity is suspended. Otherwise pc names the await the
\* handler is suspended at, and the record holds its local variables: the
\* command and its argument, the text, the value the registry returned, the
\* copy get_admins() returned, the admins already tried and the attempts.
NotSuspended ==
    [pc |-> "none", kind |-> "", arg |-> 0, text |-> "", result |-> "",
     snapshot |-> {}, done |-> {}, sends |-> <<>>]

\* ------------------------------------------------------------------- Init

\* ADMIN_IDS comes from the environment: any set of identities, the empty
\* one when the variable is unset or holds no number. The database outlives
\* the process: the senders may have a user document from an earlier run.
\* messages holds the documents appended since the start.
Init ==
    /\ admins \in SUBSET Ids
    /\ now = 0
    /\ user_messages = [u \in Ids |-> <<>>]
    /\ users \in [Ids -> {"absent", "active", "blocked"}]
    /\ \A u \in Ids \ Senders : users[u] = "absent"
    /\ messages = <<>>
    /\ reply_state = [u \in Ids |-> NoState]
    /\ broadcast_state = [u \in Ids |-> NoState]
    /\ user_data = [u \in Ids |-> NoUserData]
    /\ admitted = [u \in Ids |-> <<>>]
    /\ was_denied = [u \in Ids |-> FALSE]
    /\ pending = [u \in Ids |-> NotSuspended]
    /\ retry_at = [u \in Ids |-> <<>>]
    /\ last = [handler |-> "init", actor |-> 0, arg |-> 0, text |-> "",
               result |-> "", notice |-> "", wait |-> 0, count |-> 0,
               sends |-> <<>>, sent |-> 0, failed |-> 0,
               upserted |-> FALSE, rl_checked |-> FALSE,
               prev |-> <<"", 0, 0, "">>]

\* ------------------------------------------------------------------ clock

Tick ==
    /\ now < MaxTime
    /\ now' = now + 1
    /\ admitted' = [u \in Ids |->
                       SelectSeq(admitted[u], LAMBDA t : t > now' - WindowTicks)]
    /\ last' = Ev("tick", 0, 0, "")
    /\ UNCHANGED <<admins, pending, user_messages, was_denied, retry_at,
                   store_vars, conv_vars>>

\* --------------------------------------------------------- admin commands

BoolStr(b) == IF b THEN "true" ELSE "false"

\* /addadmin <arg>, behind check_admin. arg_kind is "none" (no argument),
\* "bad" (int() raises ValueError) or "int".
add_admin_command(actor, arg_kind, arg) ==
    /\ IF ~is_admin(admins, actor)
       THEN /\ admins' = admins
            /\ last' = [Ev("add_admin_command", actor, arg, arg_kind)
                           EXCEPT !.notice = "no_permission"]
       ELSE IF arg_kind = "none"
       THEN /\ admins' = admins
            /\ last' = [Ev("add_admin_command", actor, arg, arg_kind)
                           EXCEPT !.notice = "usage"]
       ELSE IF arg_kind = "bad"
       THEN /\ admins' = admins
            /\ last' = [Ev("add_admin_command", actor, arg, arg_kind)
                           EXCEPT !.notice = "invalid_user_id"]
       ELSE LET r == add_admin(admins, arg) IN
            /\ admins' = r.admins
            /\ last' = [Ev("add_admin_command", actor, arg, arg_kind)
                           EXCEPT !.result = BoolStr(r.result),
                                  !.notice = IF r.result THEN "added"
                                             ELSE "already_admin"]
    /\ UNCHANGED <<now, pending, rate_vars, store_vars, conv_vars>>

\* /removeadmin <arg>, behind check_admin
remove_admin_command(actor, arg_kind, arg) ==
    /\ IF ~is_admin(admins, actor)
       THEN /\ admins' = admins
            /\ last' = [Ev("remove_admin_command", actor, arg, arg_kind)
                           EXCEPT !.notice = "no_permission"]
       ELSE IF arg_kind = "none"
       THEN /\ admins' = admins
            /\ last' = [Ev("remove_admin_command", actor, arg, arg_kind)
                           EXCEPT !.notice = "usage"]
       ELSE IF arg_kind = "bad"
       THEN /\ admins' = admins
            /\ last' = [Ev("remove_admin_command", actor, arg, arg_kind)
                           EXCEPT !.notice = "invalid_user_id"]
       ELSE LET r == remove_admin(admins, arg) IN
            /\ admins' = r.admins
            /\ last' = [Ev("remove_admin_command", actor, arg, arg_kind)
                           EXCEPT !.result = BoolStr(r.result),
                                  !.notice = IF r.result THEN "removed"
                                             ELSE "cannot_remove"]
    /\ UNCHANGED <<now, pending, rate_vars, store_vars, conv_vars>>

ArgKinds == {"none", "bad", "int"}

AddAdminCommand ==
    \E actor \in Ids, k \in ArgKinds, arg \in Ids :
        /\ (k # "int" => arg = 1)
        /\ add_admin_command(actor, k, IF k = "int" THEN arg ELSE 0)

RemoveAdminCommand ==
    \E actor \in Ids, k \in ArgKinds, arg \in Ids :
        /\ (k # "int" => arg = 1)
        /\ remove_admin_command(actor, k, IF k = "int" THEN arg ELSE 0)

\* The admin registry under the admin commands alone
NextAdmin == AddAdminCommand \/ RemoveAdminCommand
InitAdmin == Init /\ users = [u \in Ids |-> "absent"]
SpecAdmin == InitAdmin /\ [][NextAdmin]_vars

\* ----------------------------------------------------- rate limiter call

\* RateLimiter.check_rate_limit(user_id) at the current time: the stored
\* window is replaced by the pruned one, extended by now when admitted. r is
\* the value of check_rate_limit for the stored window.
rate_limiter_update(user_id, r) ==
    /\ user_messages' = [user_messages EXCEPT ![user_id] = r.window]
    /\ admitted' = IF r.allowed
                   THEN [admitted EXCEPT ![user_id] = Append(@, now)]
                   ELSE admitted
    /\ was_denied' = [was_denied EXCEPT ![user_id] = @ \/ ~r.allowed]
    /\ retry_at' = [retry_at EXCEPT ![user_id] =
                       IF ~r.allowed
                       THEN <<IF Len(@) = 1
                              THEN Min({@[1], now + r.wait * TicksPerSecond})
                              ELSE now + r.wait * TicksPerSecond>>
                       ELSE IF Len(@) = 1 /\ now >= @[1]
                       THEN <<@[1], now>>
                       ELSE <<>>]

check_rate_limit_call(user_id) ==
    LET r == check_rate_limit(user_messages[user_id], now) IN
    /\ rate_limiter_update(user_id, r)
    /\ last' = [Ev("check_rate_limit", user_id, 0, "")
                   EXCEPT !.result = BoolStr(r.allowed), !.wait = r.wait,
                          !.rl_checked = TRUE]
    /\ UNCHANGED <<admins, now, pending, store_vars, conv_vars>>

RateCheck == \E user_id \in Senders : check_rate_limit_call(user_id)

\* The rate limiter alone, called by a few identities as time passes
NextRate == Tick \/ RateCheck
InitRate == Init /\ admins = {} /\ users = [u \in Ids |-> "absent"]
SpecRate == InitRate /\ [][NextRate]_vars

\* ---------------------------------------------------------- user handlers

\* /start : upsert the sender, then greet
start_command(actor) ==
    /\ users' = create_or_update(users, actor)
    /\ last' = [Ev("start_command", actor, 0, "")
                   EXCEPT !.upserted = TRUE,
                          !.notice = IF is_admin(admins, actor)
                                     THEN "welcome_admin" ELSE "welcome"]
    /\ UNCHANGED <<admins, now, pending, rate_vars, messages, conv_vars>>

menu_handler(actor, text) ==
    /\ last' = [Ev("menu_handler", actor, 0, text) EXCEPT !.notice = "menu"]
    /\ UNCHANGED <<admins, now, pending, rate_vars, store_vars, conv_vars>>

\* The relay of a user's text to every admin. failing is the set of
\* identities to which a send_message raises while this update is handled.
handle_user_message(actor, text, failing) ==
    IF is_admin(admins, actor)
    THEN /\ last' = Ev("handle_user_message", actor, 0, text)
         /\ UNCHANGED <<admins, now, pending, rate_vars, store_vars, conv_vars>>
    ELSE IF is_blocked(users, actor)
    THEN /\ last' = [Ev("handle_user_message", actor, 0, text)
                        EXCEPT !.notice = "blocked"]
         /\ UNCHANGED <<admins, now, pending, rate_vars, store_vars, conv_vars>>
    ELSE LET r == check_rate_limit(user_messages[actor], now) IN
         /\ rate_limiter_update(actor, r)
         /\ IF ~r.allowed
            THEN /\ last' = [Ev("handle_user_message", actor, 0, text)
                                EXCEPT !.notice = "slow_down",
                                       !.result = "false",
                                       !.wait = r.wait,
                                       !.rl_checked = TRUE]
                 /\ UNCHANGED <<admins, now, pending, store_vars, conv_vars>>
            ELSE LET sends == send_each(get_admins(admins), "relay", failing)
                 IN
                 /\ Len(messages) < MaxMessages
                 /\ users' = create_or_update(users, actor)
                 /\ messages' = save_message(messages, actor, text,
                                             "user_to_admin", 0)
                 /\ last' = [Ev("handle_user_message", actor, 0, text)
                                EXCEPT !.result = "true",
                                       !.rl_checked = TRUE,
                                       !.upserted = TRUE,
                                       !.sends = sends,
                                       !.sent = sent_count(sends),
                                       !.notice = IF sent_count(sends) > 0
                                                  THEN "sent" ELSE "sorry"]
                 /\ UNCHANGED <<admins, now, pending, conv_vars>>

\* --------------------------------------------------------- admin handlers

\* Dashboard, Users, Logs, Add Admin, Settings, behind check_admin: they
\* read and answer, and change nothing
admin_menu_handler(actor, text) ==
    /\ last' = [Ev("admin_menu_handler", actor, 0, text)
                   EXCEPT !.notice = IF is_admin(admins, actor)
                                     THEN "admin_menu" ELSE "no_permission"]
    /\ UNCHANGED <<admins, now, pending, rate_vars, store_vars, conv_vars>>

\* reply_<target> pressed outside a reply conversation
reply_callback_SharedTarget(actor, target) ==
    IF ~is_admin(admins, actor)
    THEN /\ last' = Ev("reply_callback", actor, target, "")
         /\ UNCHANGED <<admins, now, pending, rate_vars, store_vars, conv_vars>>
    ELSE /\ user_data' = [u \in Ids |->
                             [user_data[u] EXCEPT !.reply_to_user = target]]
         /\ reply_state' = [reply_state EXCEPT ![actor] = WAITING_FOR_REPLY]
         /\ last' = [Ev("reply_callback", actor, target, "")
                        EXCEPT !.notice = "type_your_reply"]
         /\ UNCHANGED <<admins, now, pending, rate_vars, store_vars, broadcast_state>>

reply_callback(actor, target) ==
    IF ~is_admin(admins, actor)
    THEN /\ last' = Ev("reply_callback", actor, target, "")
         /\ UNCHANGED <<admins, now, pending, rate_vars, store_vars, conv_vars>>
    ELSE /\ user_data' = [user_data EXCEPT ![actor].reply_to_user = target]
         /\ reply_state' = [reply_state EXCEPT ![actor] = WAITING_FOR_REPLY]
         /\ last' = [Ev("reply_callback", actor, target, "")
                        EXCEPT !.notice = "type_your_reply"]
         /\ UNCHANGED <<admins, now, pending, rate_vars, store_vars, broadcast_state>>

handle_admin_reply_KeepsTargetOnFailure(actor, text, failing) ==
    LET user_id == user_data[actor].reply_to_user IN
    IF user_id = Absent
    THEN /\ reply_state' = [reply_state EXCEPT ![actor] = NoState]
         /\ last' = Ev("handle_admin_reply", actor, 0, text)
         /\ UNCHANGED <<admins, now, pending, rate_vars, store_vars, broadcast_state,
                        user_data>>
    ELSE LET sends == send_each({user_id}, "reply", failing) IN
         IF failed_count(sends) = 0
         THEN /\ Len(messages) < MaxMessages
              /\ messages' = save_message(messages, user_id, text,
                                          "admin_to_user", actor)
              /\ last' = [Ev("handle_admin_reply", actor, user_id, text)
                             EXCEPT !.sends = sends,
                                    !.result = "true",
                                    !.notice = "reply_sent"]
              /\ user_data' =
                     [user_data EXCEPT ![actor].reply_to_user = Absent]
              /\ reply_state' = [reply_state EXCEPT ![actor] = NoState]
              /\ UNCHANGED <<admins, now, pending, rate_vars, users, broadcast_state>>
         ELSE /\ last' = [Ev("handle_admin_reply", actor, user_id, text)
                             EXCEPT !.sends = sends,
                                    !.result = "false",
                                    !.notice = "failed_to_send"]
              /\ UNCHANGED <<admins, now, pending, rate_vars, store_vars, conv_vars>>

\* A text while WAITING_FOR_REPLY. result records whether the send_message
\* to the target returned.
handle_admin_reply(actor, text, failing) ==
    LET user_id == user_data[actor].reply_to_user IN
    IF user_id = Absent
    THEN /\ reply_state' = [reply_state EXCEPT ![actor] = NoState]
         /\ last' = Ev("handle_admin_reply", actor, 0, text)
         /\ UNCHANGED <<admins, now, pending, rate_vars, store_vars, broadcast_state,
                        user_data>>
    ELSE LET sends == send_each({user_id}, "reply", failing) IN
         /\ IF failed_count(sends) = 0
            THEN /\ Len(messages) < MaxMessages
                 /\ messages' = save_message(messages, user_id, text,
                                             "admin_to_user", actor)
                 /\ last' = [Ev("handle_admin_reply", actor, user_id, text)
                                EXCEPT !.sends = sends,
                                       !.result = "true",
                                       !.notice = "reply_sent"]
            ELSE /\ messages' = messages
                 /\ last' = [Ev("handle_admin_reply", actor, user_id, text)
                                EXCEPT !.sends = sends,
                                       !.result = "false",
                                       !.notice = "failed_to_send"]
         /\ user_data' = [user_data EXCEPT ![actor].reply_to_user = Absent]
         /\ reply_state' = [reply_state EXCEPT ![actor] = NoState]
         /\ UNCHANGED <<admins, now, pending, rate_vars, users, broadcast_state>>

\* /cancel inside the reply conversation. The record keeps the target that
\* was pending.
cancel_reply_StaysOpen(actor) ==
    /\ last' = [Ev("cancel_reply", actor, user_data[actor].reply_to_user, "")
                   EXCEPT !.notice = "cancelled"]
    /\ UNCHANGED <<admins, now, pending, rate_vars, store_vars, conv_vars>>

cancel_reply(actor) ==
    /\ user_data' = [user_data EXCEPT ![actor].reply_to_user = Absent]
    /\ reply_state' = [reply_state EXCEPT ![actor] = NoState]
    /\ last' = [Ev("cancel_reply", actor, user_data[actor].reply_to_user, "")
                   EXCEPT !.notice = "cancelled"]
    /\ UNCHANGED <<admins, now, pending, rate_vars, store_vars, broadcast_state>>

block_callback(actor, target) ==
    IF ~is_admin(admins, actor)
    THEN /\ last' = Ev("block_callback", actor, target, "")
         /\ UNCHANGED <<admins, now, pending, rate_vars, store_vars, conv_vars>>
    ELSE /\ users' = block_user(users, target)
         /\ last' = [Ev("block_callback", actor, target, "")
                        EXCEPT !.notice = "blocked_user"]
         /\ UNCHANGED <<admins, now, pending, rate_vars, messages, conv_vars>>

unblock_callback(actor, target) ==
    IF ~is_admin(admins, actor)
    THEN /\ last' = Ev("unblock_callback", actor, target, "")
         /\ UNCHANGED <<admins, now, pending, rate_vars, store_vars, conv_vars>>
    ELSE /\ users' = unblock_user(users, target)
         /\ last' = [Ev("unblock_callback", actor, target, "")
                        EXCEPT !.notice = "unblocked_user"]
         /\ UNCHANGED <<admins, now, pending, rate_vars, messages, conv_vars>>

\* ----------------------------------------------------- broadcast handlers

\* "Broadcast" outside a broadcast conversation, behind check_admin (the
\* wrapper returns None for a non-admin, which starts no conversation)
broadcast_handler(actor, text) ==
    IF ~is_admin(admins, actor)
    THEN /\ last' = [Ev("broadcast_handler", actor, 0, text)
                        EXCEPT !.notice = "no_permission"]
         /\ UNCHANGED <<admins, now, pending, rate_vars, store_vars, conv_vars>>
    ELSE /\ broadcast_state' =
                [broadcast_state EXCEPT ![actor] = WAITING_FOR_BROADCAST]
         /\ last' = [Ev("broadcast_handler", actor, 0, text)
                        EXCEPT !.notice = "type_your_message",
                               !.count = get_user_count(users)]
         /\ UNCHANGED <<admins, now, pending, rate_vars, store_vars, reply_state,
                        user_data>>

\* A text while WAITING_FOR_BROADCAST
receive_broadcast_message(actor, text) ==
    IF ~is_admin(admins, actor)
    THEN /\ broadcast_state' = [broadcast_state EXCEPT ![actor] = NoState]
         /\ last' = Ev("receive_broadcast_message", actor, 0, text)
         /\ UNCHANGED <<admins, now, pending, rate_vars, store_vars, reply_state,
                        user_data>>
    ELSE /\ user_data' = [user_data EXCEPT ![actor].broadcast_message = text]
         /\ broadcast_state' =
                [broadcast_state EXCEPT ![actor] = CONFIRM_BROADCAST]
         /\ last' = [Ev("receive_broadcast_message", actor, 0, text)
                        EXCEPT !.notice = "preview",
                               !.count = get_user_count(users)]
         /\ UNCHANGED <<admins, now, pending, rate_vars, store_vars, reply_state>>

\* broadcast_confirm or broadcast_cancel pressed while CONFIRM_BROADCAST
broadcast_confirm_callback(actor, data, failing) ==
    IF data = "broadcast_cancel"
    THEN /\ user_data' = [user_data EXCEPT ![actor].broadcast_message = ""]
         /\ broadcast_state' = [broadcast_state EXCEPT ![actor] = NoState]
         /\ last' = [Ev("broadcast_confirm_callback", actor, 0, data)
                        EXCEPT !.notice = "broadcast_cancelled"]
         /\ UNCHANGED <<admins, now, pending, rate_vars, store_vars, reply_state>>
    ELSE LET broadcast_text == user_data[actor].broadcast_message IN
         IF broadcast_text = ""
         THEN /\ broadcast_state' = [broadcast_state EXCEPT ![actor] = NoState]
              /\ last' = [Ev("broadcast_confirm_callback", actor, 0, data)
                             EXCEPT !.notice = "no_message_found"]
              /\ UNCHANGED <<admins, now, pending, rate_vars, store_vars, reply_state,
                             user_data>>
         ELSE LET targets == get_all_active(users)
                  sends == send_each(targets, "broadcast", failing)
              IN
              /\ user_data' =
                     [user_data EXCEPT ![actor].broadcast_message = ""]
              /\ broadcast_state' =
                     [broadcast_state EXCEPT ![actor] = NoState]
              /\ last' = [Ev("broadcast_confirm_callback", actor, 0,
                             broadcast_text)
                             EXCEPT !.notice = "broadcast_complete",
                                    !.count = Cardinality(targets),
                                    !.sends = sends,
                                    !.sent = sent_count(sends),
                                    !.failed = failed_count(sends),
                                    !.result = "true"]
              /\ UNCHANGED <<admins, now, pending, rate_vars, store_vars, reply_state>>

\* /cancel inside the broadcast conversation
cancel_broadcast(actor) ==
    /\ user_data' = [user_data EXCEPT ![actor].broadcast_message = ""]
    /\ broadcast_state' = [broadcast_state EXCEPT ![actor] = NoState]
    /\ last' = [Ev("cancel_broadcast", actor, 0, "")
                   EXCEPT !.notice = "broadcast_cancelled"]
    /\ UNCHANGED <<admins, now, pending, rate_vars, store_vars, reply_state>>

\* --------------------------------------------------------------- dispatch

\* An update no registered handler accepts
unhandled(actor, arg, text) ==
    /\ last' = Ev("unhandled", actor, arg, text)
    /\ UNCHANGED <<admins, now, pending, rate_vars, store_vars, conv_vars>>

\* A non-command text in a private chat. The handlers are tried in the
\* order main() registers them and the first that accepts the update runs:
\* reply_conv (only its WAITING_FOR_REPLY text handler takes a text),
\* broadcast_conv (its entry point when no conversation is open, its
\* WAITING_FOR_BROADCAST text handler; nothing while CONFIRM_BROADCAST),
\* the admin menu, the user menu, and last handle_user_message.
text_message(actor, text, failing) ==
    IF reply_state[actor] = WAITING_FOR_REPLY
    THEN handle_admin_reply(actor, text, failing)
    ELSE IF broadcast_state[actor] = WAITING_FOR_BROADCAST
    THEN receive_broadcast_message(actor, text)
    ELSE IF broadcast_state[actor] = NoState /\ text = "Broadcast"
    THEN broadcast_handler(actor, text)
    ELSE IF text \in AdminMenuTexts
    THEN admin_menu_handler(actor, text)
    ELSE IF text \in UserMenuTexts
    THEN menu_handler(actor, text)
    ELSE handle_user_message(actor, text, failing)

\* A press of a reply_<target> button: an entry point of reply_conv, which
\* is not searched while a conversation is open (allow_reentry is off),
\* and no other handler matches the pattern
reply_button(actor, target) ==
    IF reply_state[actor] = NoState
    THEN reply_callback(actor, target)
    ELSE unhandled(actor, target, "reply")

\* A press of broadcast_confirm or broadcast_cancel: only the
\* CONFIRM_BROADCAST state of broadcast_conv has a handler for it
broadcast_button(actor, data, failing) ==
    IF broadcast_state[actor] = CONFIRM_BROADCAST
    THEN broadcast_confirm_callback(actor, data, failing)
    ELSE unhandled(actor, 0, data)

\* /cancel : a fallback of reply_conv, then of broadcast_conv; no handler
\* outside the conversations takes it
cancel_command(actor) ==
    IF reply_state[actor] = WAITING_FOR_REPLY
    THEN cancel_reply(actor)
    ELSE IF broadcast_state[actor] # NoState
    THEN cancel_broadcast(actor)
    ELSE unhandled(actor, 0, "/cancel")

\* ---------------------------------------------------------------- updates

\* The identities a send_message of this update can be addressed to
Addressed(actor) ==
    IF reply_state[actor] = WAITING_FOR_REPLY
    THEN {user_data[actor].reply_to_user} \ {Absent}
    ELSE admins

TextMessage ==
    \E actor \in Ids, text \in Texts :
        \E failing \in SUBSET Addressed(actor) :
            text_message(actor, text, failing)

\* A user's text that is no "Broadcast"
UserText ==
    \E actor \in Senders, text \in Texts \ {"Broadcast"} :
        \E failing \in SUBSET Addressed(actor) :
            text_message(actor, text, failing)

StartCommand == \E actor \in Ids : start_command(actor)

SenderStart == \E actor \in Senders : start_command(actor)

CancelCommand == \E actor \in Ids : cancel_command(actor)

\* The bot attaches the reply and block buttons of a user to the relayed
\* messages of that user, who then has a user document
ReplyButton ==
    \E actor \in Ids, target \in Senders :
        /\ users[target] # "absent"
        /\ reply_button(actor, target)

BlockButton ==
    \E actor \in Ids, target \in Senders :
        /\ users[target] # "absent"
        /\ block_callback(actor, target)

\* No keyboard of this version carries an unblock button, but the handler
\* is registered: the press can come from a message of an earlier deployment
UnblockButton ==
    \E actor \in Ids, target \in Senders :
        /\ users[target] # "absent"
        /\ unblock_callback(actor, target)

BroadcastButton ==
    \E actor \in Ids, data \in {"broadcast_confirm", "broadcast_cancel"} :
        \E failing \in SUBSET get_all_active(users) :
            broadcast_button(actor, data, failing)

\* The relay: users start, write and get blocked, under every admin set the
\* environment can give; no conversation is opened
NextRelay == UserText \/ BlockButton \/ SenderStart
SpecRelay == Init /\ [][NextRelay]_vars

\* Blocking: users start and write while the block and unblock buttons of
\* their messages are pressed by admins and by others; the senders are not
\* admins
NextBlock == UserText \/ SenderStart \/ BlockButton \/ UnblockButton
InitBlock == Init /\ admins \subseteq Ids \ Senders
SpecBlock == InitBlock /\ [][NextBlock]_vars

\* The updates of the operators in the conversations
OperatorReplyButton ==
    \E actor \in Operators, target \in Senders :
        /\ users[target] # "absent"
        /\ reply_button(actor, target)

OperatorText ==
    \E actor \in Operators, text \in {"hello", "Broadcast"} :
        \E failing \in SUBSET Addressed(actor) :
            text_message(actor, text, failing)

OperatorCancel == \E actor \in Operators : cancel_command(actor)

OperatorAdded ==
    \E actor \in Ids, arg \in Operators : add_admin_command(actor, "int", arg)

OperatorRemoved ==
    \E actor \in Ids, arg \in Operators :
        remove_admin_command(actor, "int", arg)

\* The reply conversation: operators press reply buttons, write and cancel,
\* and are added to and removed from the admin set meanwhile
NextReply ==
    OperatorReplyButton \/ OperatorText \/ OperatorCancel \/ OperatorAdded
        \/ OperatorRemoved
InitReply ==
    /\ Init
    /\ admins \subseteq Ids \ Senders
    /\ users = [u \in Ids |-> IF u \in Senders THEN "active" ELSE "absent"]
SpecReply == InitReply /\ [][NextReply]_vars

\* The other updates of the operators: the confirmation buttons, /start and
\* the block button of a relayed message
OperatorBroadcastButton ==
    \E actor \in Operators, data \in {"broadcast_confirm", "broadcast_cancel"} :
        \E failing \in SUBSET get_all_active(users) :
            broadcast_button(actor, data, failing)

OperatorStart == \E actor \in Operators : start_command(actor)

OperatorBlock ==
    \E actor \in Operators, target \in Senders :
        /\ users[target] # "absent"
        /\ block_callback(actor, target)

\* The broadcast conversation: operators enter, write, confirm and cancel,
\* start the bot and block users, and are added to and removed from the
\* admin set meanwhile. The senders have whatever user document an earlier
\* run left.
NextBroadcast ==
    OperatorText \/ OperatorCancel \/ OperatorBroadcastButton \/ OperatorStart
        \/ OperatorBlock \/ OperatorAdded \/ OperatorRemoved
InitBroadcast == Init /\ admins \subseteq Ids \ Senders
SpecBroadcast == InitBroadcast /\ [][NextBroadcast]_vars

\* The identities that do not write as users
Staff == Ids \ Senders

StaffReplyButton ==
    \E actor \in Staff, target \in Senders :
        /\ users[target] # "absent"
        /\ reply_button(actor, target)

\* The text that is the broadcast entry outside a conversation and a body
\* inside one
StaffTexts == {"Broadcast"}

StaffText ==
    \E actor \in Staff, text \in StaffTexts :
        \E failing \in SUBSET Addressed(actor) :
            text_message(actor, text, failing)

StaffCancel == \E actor \in Staff : cancel_command(actor)

StaffBroadcastButton ==
    \E actor \in Staff, data \in {"broadcast_confirm", "broadcast_cancel"} :
        \E failing \in SUBSET get_all_active(users) :
            broadcast_button(actor, data, failing)

\* Several admins in their conversations at once: every non-sender is an
\* admin, and each of them enters, writes, confirms and cancels
NextStaff ==
    StaffReplyButton \/ StaffText \/ StaffCancel \/ StaffBroadcastButton
InitStaff ==
    /\ Init
    /\ admins = Staff
    /\ users = [u \in Ids |-> IF u \in Senders THEN "active" ELSE "absent"]
SpecStaff == InitStaff /\ [][NextStaff]_vars

\* ------------------------------------------------- suspended handlers

\* The Application handles one update at a time. Were updates handled
\* concurrently, a handler could be suspended at each of its awaits while
\* handlers of other identities run. The actions below are the handlers of
\* the admin commands and of the relay cut at their awaits: the code between
\* two awaits runs without interruption, and one identity has at most one
\* handler suspended. What these handlers did is kept in pending, not in
\* last.

\* The admins the fan-out loop has still to try: it iterates the copy that
\* get_admins() returned
fanout_remaining_Live(snapshot, done, live) == live \ done

fanout_remaining(snapshot, done, live) == snapshot \ done

\* /addadmin <arg> or /removeadmin <arg> up to the await of its answer:
\* check_admin, int() and the registry call
command_begin(actor, kind, arg) ==
    /\ pending[actor].pc = "none"
    /\ LET r == IF kind = "add" THEN add_admin(admins, arg)
                ELSE remove_admin(admins, arg)
       IN  IF ~is_admin(admins, actor)
           THEN /\ admins' = admins
                /\ pending' = [pending EXCEPT ![actor] =
                       [NotSuspended EXCEPT !.pc = "answer", !.kind = kind,
                                            !.arg = arg]]
           ELSE /\ admins' = r.admins
                /\ pending' = [pending EXCEPT ![actor] =
                       [NotSuspended EXCEPT !.pc = "answer", !.kind = kind,
                                            !.arg = arg,
                                            !.result = BoolStr(r.result)]]
    /\ UNCHANGED <<now, rate_vars, store_vars, conv_vars, last>>

\* The answer of the command is sent and the handler returns
command_end(actor) ==
    /\ pending[actor].pc = "answer"
    /\ pending' = [pending EXCEPT ![actor] = NotSuspended]
    /\ UNCHANGED <<admins, now, rate_vars, store_vars, conv_vars, last>>

\* handle_user_message up to the await of is_blocked; it returns at once for
\* an admin
relay_begin(actor, text) ==
    /\ pending[actor].pc = "none"
    /\ ~is_admin(admins, actor)
    /\ pending' = [pending EXCEPT ![actor] =
           [NotSuspended EXCEPT !.pc = "is_blocked", !.text = text]]
    /\ UNCHANGED <<admins, now, rate_vars, store_vars, conv_vars, last>>

\* is_blocked returns; then the rate limiter is called, and either a notice
\* ends the handler or create_or_update is awaited
relay_lookup(actor) ==
    /\ pending[actor].pc = "is_blocked"
    /\ IF is_blocked(users, actor)
       THEN /\ pending' = [pending EXCEPT ![actor] = NotSuspended]
            /\ UNCHANGED rate_vars
       ELSE LET r == check_rate_limit(user_messages[actor], now) IN
            /\ rate_limiter_update(actor, r)
            /\ pending' = [pending EXCEPT ![actor] =
                   IF r.allowed THEN [@ EXCEPT !.pc = "create_or_update"]
                   ELSE NotSuspended]
    /\ UNCHANGED <<admins, now, store_vars, conv_vars, last>>

\* create_or_update is done; save_message is awaited
relay_upsert(actor) ==
    /\ pending[actor].pc = "create_or_update"
    /\ users' = create_or_update(users, actor)
    /\ pending' = [pending EXCEPT ![actor].pc = "save_message"]
    /\ UNCHANGED <<admins, now, rate_vars, messages, conv_vars, last>>

\* save_message is done; the loop starts on the copy of the admin set
relay_save(actor) ==
    /\ pending[actor].pc = "save_message"
    /\ Len(messages) < MaxMessages
    /\ messages' = save_message(messages, actor, pending[actor].text,
                                "user_to_admin", 0)
    /\ pending' = [pending EXCEPT ![actor].pc = "send_message",
                                  ![actor].snapshot = get_admins(admins)]
    /\ UNCHANGED <<admins, now, rate_vars, users, conv_vars, last>>

\* One round of the loop: the send_message to the next admin returns or
\* raises
relay_send(actor, ok) ==
    /\ pending[actor].pc = "send_message"
    /\ LET c == pending[actor]
           remaining == fanout_remaining(c.snapshot, c.done, admins)
       IN  /\ remaining # {}
           /\ pending' = [pending EXCEPT
                  ![actor].sends = Append(@, [to |-> Min(remaining),
                                              kind |-> "relay", ok |-> ok]),
                  ![actor].done = @ \cup {Min(remaining)}]
    /\ UNCHANGED <<admins, now, rate_vars, store_vars, conv_vars, last>>

\* The loop is over: the sender is acknowledged and the handler returns
relay_ack(actor) ==
    /\ pending[actor].pc = "send_message"
    /\ fanout_remaining(pending[actor].snapshot, pending[actor].done,
                        admins) = {}
    /\ pending' = [pending EXCEPT ![actor] = NotSuspended]
    /\ UNCHANGED <<admins, now, rate_vars, store_vars, conv_vars, last>>

CommandBegin ==
    \E actor \in Staff, kind \in {"add", "remove"}, arg \in Staff :
        command_begin(actor, kind, arg)

CommandEnd == \E actor \in Staff : command_end(actor)

RelayBegin == \E actor \in Senders : relay_begin(actor, "hello")

RelayLookup == \E actor \in Senders : relay_lookup(actor)

RelayUpsert == \E actor \in Senders : relay_upsert(actor)

RelaySave == \E actor \in Senders : relay_save(actor)

RelaySend == \E actor \in Senders, ok \in BOOLEAN : relay_send(actor, ok)

RelayAck == \E actor \in Senders : relay_ack(actor)

\* Admin commands of the non-senders and relays of the senders, interleaved
\* at their awaits
NextConcurrent ==
    CommandBegin \/ CommandEnd \/ RelayBegin \/ RelayLookup \/ RelayUpsert
        \/ RelaySave \/ RelaySend \/ RelayAck
InitConcurrent == Init /\ admins \subseteq Staff
SpecConcurrent == InitConcurrent /\ [][NextConcurrent]_vars

\* ------------------------------------------------ properties: the registry

\* C1: the admin set is never empty, in every reachable state of the
\* registry. (Violated: ADMIN_IDS unset or without a number gives the empty
\* set at start, and nothing checks it.)
C1_AdminSetNeverEmpty == admins # {}

\* What the registry's operations do keep: a non-empty set stays non-empty.
AdminSetStaysNonEmpty == [][admins # {} => admins' # {}]_vars

\* C2: remove(identity) returns false and leaves the set unchanged when the
\* identity is not an admin or is the only admin; otherwise it returns true
\* and the set afterwards is the previous set minus exactly that identity.
C2_RemoveContract ==
    [][(last'.handler = "remove_admin_command" /\ last'.result # "") =>
         LET x == last'.arg IN
         IF x \notin admins \/ admins = {x}
         THEN last'.result = "false" /\ admins' = admins
         ELSE last'.result = "true" /\ admins' = admins \ {x}]_vars

\* C2 witness: remove(a) has just succeeded and left {b}, right after add(b)
\* succeeded (so the set was {a} before the add).
C2_Witness ==
    /\ last.handler = "remove_admin_command"
    /\ last.result = "true"
    /\ last.prev[1] = "add_admin_command"
    /\ last.prev[4] = "true"
    /\ last.prev[3] # last.arg
    /\ admins = {last.prev[3]}

\* C3: add(identity) on a set not containing it returns true and grows the
\* set by exactly that identity; an immediately repeated add(identity)
\* returns false and leaves the set unchanged.
C3_AddIdempotent ==
    [][(last'.handler = "add_admin_command" /\ last'.result # "") =>
         LET x == last'.arg IN
         /\ x \notin admins =>
              /\ last'.result = "true"
              /\ admins' = admins \cup {x}
              /\ Cardinality(admins') = Cardinality(admins) + 1
         /\ (last.handler = "add_admin_command" /\ last.result # ""
               /\ last.arg = x) =>
              /\ last'.result = "false"
              /\ admins' = admins]_vars

\* C3 witness: the second of two consecutive add(x), the first of which
\* returned true, has returned false.
C3_Witness ==
    /\ last.handler = "add_admin_command"
    /\ last.result = "false"
    /\ last.prev = <<"add_admin_command", last.prev[2], last.arg, "true">>
    /\ last.arg \in admins

\* -------------------------------------------- properties: the rate limiter

\* C4: for every identity and every time t the number of its admitted checks
\* with timestamp in (t - window, t] is at most max_events (admitted[i] holds
\* exactly those for t = now, and every t is now in some state), and after
\* every check the identity's stored window holds at most max_events
\* timestamps, all of them newer than now - window.
C4_SlidingWindowCap ==
    /\ \A i \in Ids :
         /\ Len(admitted[i]) <= RATE_LIMIT_MESSAGES
         /\ \A k \in 1..Len(admitted[i]) :
              admitted[i][k] > now - WindowTicks /\ admitted[i][k] <= now
    /\ last.rl_checked =>
         LET w == user_messages[last.actor] IN
         /\ Len(w) <= RATE_LIMIT_MESSAGES
         /\ \A k \in 1..Len(w) : w[k] > now - WindowTicks

\* C4 witness: a check was denied with the window full of admissions made
\* at different times, the oldest of them before now.
C4_Witness ==
    /\ last.rl_checked
    /\ last.result = "false"
    /\ Len(admitted[last.actor]) = RATE_LIMIT_MESSAGES
    /\ admitted[last.actor][1] < now
    /\ admitted[last.actor][1] < admitted[last.actor][RATE_LIMIT_MESSAGES]

\* C5: a check of an identity is admitted while fewer than max_events of its
\* admitted checks lie in the trailing window, and denied with
\* retry_after > 0 once max_events of them do (the (max_events+1)-th within
\* window_seconds); a check made when all its admitted checks are more than
\* window_seconds old is admitted again.
C5_DenyThenReadmit ==
    [][last'.rl_checked =>
         LET i == last'.actor
             recent == Len(admitted[i])
         IN  /\ recent < RATE_LIMIT_MESSAGES => last'.result = "true"
             /\ recent >= RATE_LIMIT_MESSAGES =>
                  last'.result = "false" /\ last'.wait > 0
             /\ recent = 0 => last'.result = "true"]_vars

\* C5 witness: an identity that was denied before has been admitted again,
\* every earlier admission of it being out of the trailing window.
C5_Witness ==
    /\ last.rl_checked
    /\ last.result = "true"
    /\ was_denied[last.actor]
    /\ admitted[last.actor] = <<now>>

\* --------------------------------------------------- properties: the relay

IsRelayOf(ev) == ev.handler = "handle_user_message"

\* C6: for a message of a non-admin identity whose user document has
\* is_blocked true, the relay does not call the rate limiter (the rate
\* windows are unchanged), appends no message, upserts no user, sends nothing
\* to any admin, and sends the user only the blocked notice.
C6_BlockedShortCircuit ==
    [][(IsRelayOf(last') /\ last'.actor \notin admins
          /\ users[last'.actor] = "blocked") =>
         /\ ~last'.rl_checked
         /\ user_messages' = user_messages
         /\ admitted' = admitted
         /\ was_denied' = was_denied
         /\ retry_at' = retry_at
         /\ messages' = messages
         /\ users' = users
         /\ ~last'.upserted
         /\ last'.sends = <<>>
         /\ last'.notice = "blocked"]_vars

\* C6 witness: a user who was relayed before has got the blocked notice,
\* with admins to relay to.
C6_Witness ==
    /\ IsRelayOf(last)
    /\ last.notice = "blocked"
    /\ admins # {}
    /\ \E k \in 1..Len(messages) : messages[k].user_id = last.actor

\* C7: when the rate limiter denies a non-blocked user's message the user
\* gets the throttling notice with retry_after and the relay stops: no
\* upsert, no message appended, no delivery attempt, no timestamp added to
\* the rate window, and nothing else keeps the message for later.
C7_ThrottledDropped ==
    [][(IsRelayOf(last') /\ last'.result = "false") =>
         LET u == last'.actor IN
         /\ last'.notice = "slow_down"
         /\ last'.wait > 0
         /\ users' = users
         /\ ~last'.upserted
         /\ messages' = messages
         /\ last'.sends = <<>>
         /\ Len(user_messages'[u]) <= Len(user_messages[u])
         /\ SeqRange(user_messages'[u]) \subseteq SeqRange(user_messages[u])
         /\ \A v \in Ids \ {u} : user_messages'[v] = user_messages[v]
         /\ admitted' = admitted
         /\ UNCHANGED <<admins, conv_vars>>]_vars

\* C7 witness: a message was throttled while there are admins.
C7_Witness ==
    /\ IsRelayOf(last)
    /\ last.result = "false"
    /\ last.notice = "slow_down"
    /\ admins # {}
    /\ Len(user_messages[last.actor]) = RATE_LIMIT_MESSAGES

\* C8: for every admitted user message exactly one delivery attempt is made
\* to each identity of the admin set as it is when the fan-out starts,
\* whichever deliveries fail, and none to anyone else.
C8_FanOutIndependence ==
    [][(IsRelayOf(last') /\ last'.result = "true") =>
         /\ Len(last'.sends) = Cardinality(admins)
         /\ \A a \in admins : Attempts(last'.sends, a) = 1
         /\ \A k \in 1..Len(last'.sends) :
              last'.sends[k].to \in admins /\ last'.sends[k].kind = "relay"]_vars

\* C8 witness: three admins, the delivery to the second failed, the other
\* two succeeded: three attempts, one failure.
C8_Witness ==
    /\ IsRelayOf(last)
    /\ Cardinality(admins) = 3
    /\ Len(last.sends) = 3
    /\ last.sends[1].ok /\ ~last.sends[2].ok /\ last.sends[3].ok
    /\ Failures(last.sends) = 1

\* C9: for every admitted user message the user is acknowledged with success
\* iff at least one admin delivery succeeded and with failure iff none did,
\* and in both cases exactly one user_to_admin message of that user has been
\* appended; the message collection only ever grows by appending.
C9_AckAndDurability ==
    [][/\ (IsRelayOf(last') /\ last'.result = "true") =>
            /\ last'.notice \in {"sent", "sorry"}
            /\ last'.notice = "sent" <=> Successes(last'.sends) > 0
            /\ last'.notice = "sorry" <=>
                   Failures(last'.sends) = Len(last'.sends)
            /\ messages' = Append(messages,
                   [user_id |-> last'.actor, message_text |-> last'.text,
                    direction |-> "user_to_admin", admin_id |-> 0])
       /\ Len(messages') >= Len(messages)
       /\ SubSeq(messages', 1, Len(messages)) = messages]_vars

\* C9 witness: every delivery to the (several) admins failed, the user got
\* the failure acknowledgement, and the message is persisted.
C9_Witness ==
    /\ IsRelayOf(last)
    /\ last.notice = "sorry"
    /\ Len(last.sends) >= 2
    /\ Len(messages) >= 1
    /\ messages[Len(messages)].user_id = last.actor
    /\ messages[Len(messages)].direction = "user_to_admin"

\* ---------------------------------------- properties: the reply conversation

\* The handlers a non-command text can reach
TextHandlers == {"handle_admin_reply", "receive_broadcast_message",
                 "broadcast_handler", "admin_menu_handler", "menu_handler",
                 "handle_user_message"}

IsTextOf(ev, actor) == ev.handler \in TextHandlers /\ ev.actor = actor

HasReplySend(ev) == \E k \in 1..Len(ev.sends) : ev.sends[k].kind = "reply"

\* C10: while A awaits a reply text for U, A's next text causes exactly one
\* delivery attempt, addressed to U, and A's reply conversation ends whether
\* the delivery succeeded or failed (the failure is reported to A); a text
\* of A outside the reply conversation causes no reply delivery, and no
\* delivery at all while A is an admin.
C10_ReplyFlow ==
    [][\A A \in Ids :
         IsTextOf(last', A) =>
           IF reply_state[A] = WAITING_FOR_REPLY
           THEN LET U == user_data[A].reply_to_user IN
                /\ U # Absent
                /\ last'.handler = "handle_admin_reply"
                /\ Len(last'.sends) = 1
                /\ last'.sends[1].to = U
                /\ last'.sends[1].kind = "reply"
                /\ last'.notice = IF last'.sends[1].ok THEN "reply_sent"
                                  ELSE "failed_to_send"
                /\ reply_state'[A] = NoState
                /\ user_data'[A].reply_to_user = Absent
           ELSE /\ ~HasReplySend(last')
                /\ A \in admins => last'.sends = <<>>]_vars

\* C10 witness: admin A's reply to U failed, A's reply conversation ended,
\* and A's next text was delivered to no one.
C10_Witness ==
    /\ last.handler = "handle_user_message"
    /\ last.actor \in admins
    /\ last.prev[1] = "handle_admin_reply"
    /\ last.prev[2] = last.actor
    /\ last.prev[3] \in Senders
    /\ last.prev[4] = "false"
    /\ last.sends = <<>>
    /\ reply_state[last.actor] = NoState
    /\ user_data[last.actor].reply_to_user = Absent

\* A text that handle_admin_reply consumed as the body of a reply to a target
IsReplyBody(ev) == ev.handler = "handle_admin_reply" /\ ev.arg # 0

ReplyDocument(ev) ==
    [user_id |-> ev.arg, message_text |-> ev.text,
     direction |-> "admin_to_user", admin_id |-> ev.actor]

\* C11: every text consumed as a reply body by admin A while A awaits the
\* reply text for U appends exactly one message document with direction
\* admin_to_user, admin A and user U, whether or not the delivery succeeded.
\* (Violated: save_message is inside the try block after send_message, so a
\* failed delivery appends nothing.)
C11_ReplyPersisted ==
    [][IsReplyBody(last') => messages' = Append(messages, ReplyDocument(last'))]_vars

\* What the code does keep: a delivered reply is appended exactly once, and
\* an undelivered one leaves the collection as it was.
ReplyPersistedIffDelivered ==
    [][IsReplyBody(last') =>
         IF last'.sends[1].ok
         THEN messages' = Append(messages, ReplyDocument(last'))
         ELSE messages' = messages]_vars

\* ------------------------------------------ properties: the conversations

\* C12: in every reachable state no identity is awaiting a reply text and
\* inside the broadcast conversation at once: each identity has at most one
\* of the two conversations open. (Violated: reply_conv and broadcast_conv
\* keep separate states, and a reply button pressed during the broadcast
\* conversation opens the reply conversation beside it.)
C12_OneConversation ==
    \A a \in Ids :
        ~(reply_state[a] = WAITING_FOR_REPLY /\ broadcast_state[a] # NoState)

\* A press of the reply button of user U by actor A, handled or not
IsReplyPress(ev, A, U) ==
    /\ ev.actor = A
    /\ ev.arg = U
    /\ \/ ev.handler = "reply_callback"
       \/ ev.handler = "unhandled" /\ ev.text = "reply"

\* C13: when admin A, already awaiting a reply text for U1, presses the
\* reply button of U2, A awaits a reply text for U2 afterwards: the stored
\* target, to which A's next text is delivered, is U2. (Violated: reply_conv
\* does not search its entry points while a conversation is open, the press
\* is dropped and the target stays U1.)
C13_ReplyLastWriterWins ==
    [][\A A \in Ids, U2 \in Ids :
         (IsReplyPress(last', A, U2) /\ A \in admins
            /\ reply_state[A] = WAITING_FOR_REPLY) =>
              /\ reply_state'[A] = WAITING_FOR_REPLY
              /\ user_data'[A].reply_to_user = U2]_vars

\* What the code does instead: a press during an open reply conversation
\* changes nothing, so the first target stays.
ReplyFirstWriterStays ==
    [][\A A \in Ids, U2 \in Ids :
         (IsReplyPress(last', A, U2) /\ reply_state[A] = WAITING_FOR_REPLY) =>
              /\ last'.handler = "unhandled"
              /\ UNCHANGED <<conv_vars, store_vars, admins>>]_vars

\* A press of the confirm button by actor A, handled or not
IsConfirmPress(ev, A) ==
    /\ ev.actor = A
    /\ \/ ev.handler = "broadcast_confirm_callback"
             /\ ev.notice # "broadcast_cancelled"
       \/ ev.handler = "unhandled" /\ ev.text = "broadcast_confirm"

\* A confirm press that found a stored body
IsConfirmOf(ev) ==
    ev.handler = "broadcast_confirm_callback" /\ ev.result = "true"

\* C14: a confirm press by A while A's broadcast conversation awaits the
\* confirmation of a body makes exactly one delivery attempt of that body to
\* each user whose document is not blocked when the press is handled, and
\* none to anyone else, whichever attempts fail; the tally reported has
\* sent + failed = the number of those users, failed = the number of failed
\* attempts and sent = the number of successful ones; afterwards A's
\* broadcast conversation is over and no body is stored.
C14_BroadcastTally ==
    [][\A A \in Ids :
         (IsConfirmPress(last', A)
            /\ broadcast_state[A] = CONFIRM_BROADCAST) =>
           LET snapshot == {u \in Ids : users[u] = "active"} IN
           /\ IsConfirmOf(last')
           /\ last'.text = user_data[A].broadcast_message
           /\ Len(last'.sends) = Cardinality(snapshot)
           /\ \A u \in snapshot : Attempts(last'.sends, u) = 1
           /\ \A k \in 1..Len(last'.sends) :
                /\ last'.sends[k].to \in snapshot
                /\ last'.sends[k].kind = "broadcast"
           /\ \A u \in Ids : users[u] = "blocked" => Attempts(last'.sends, u) = 0
           /\ last'.sent + last'.failed = Cardinality(snapshot)
           /\ last'.failed = Failures(last'.sends)
           /\ last'.sent = Successes(last'.sends)
           /\ last'.notice = "broadcast_complete"
           /\ broadcast_state'[A] = NoState
           /\ user_data'[A].broadcast_message = ""
           /\ UNCHANGED <<store_vars, admins>>]_vars

\* C14 witness: three active users, the delivery to the second of them
\* failed: three attempts, sent 2, failed 1.
C14_Witness ==
    /\ IsConfirmOf(last)
    /\ Cardinality({u \in Ids : users[u] = "active"}) = 3
    /\ Len(last.sends) = 3
    /\ last.sends[1].ok /\ ~last.sends[2].ok /\ last.sends[3].ok
    /\ last.sent = 2 /\ last.failed = 1
    /\ broadcast_state[last.actor] = NoState

\* A /cancel command of actor A, whichever handler took it
IsCancelCommand(ev, A) ==
    /\ ev.actor = A
    /\ \/ ev.handler \in {"cancel_reply", "cancel_broadcast"}
       \/ ev.handler = "unhandled" /\ ev.text = "/cancel"

\* A press of the cancel button of the confirmation by actor A
IsCancelPress(ev, A) ==
    /\ ev.actor = A
    /\ \/ ev.handler = "broadcast_confirm_callback"
             /\ ev.notice = "broadcast_cancelled"
       \/ ev.handler = "unhandled" /\ ev.text = "broadcast_cancel"

BroadcastDiscarded(A) ==
    /\ broadcast_state'[A] = NoState
    /\ user_data'[A].broadcast_message = ""
    /\ last'.sends = <<>>

\* C15: a press of the cancel button while A's broadcast awaits confirmation,
\* or a /cancel command of A while A's broadcast awaits the body or the
\* confirmation, ends A's broadcast conversation, deletes the stored body
\* and makes no delivery attempt; and a confirm press of A outside
\* CONFIRM_BROADCAST delivers nothing. (Violated: a /cancel typed while A
\* also awaits a reply text is taken by cancel_reply of reply_conv, and the
\* broadcast and its body stay.)
C15_BroadcastCancel ==
    [][\A A \in Ids :
         /\ (IsCancelPress(last', A)
               /\ broadcast_state[A] = CONFIRM_BROADCAST) =>
              BroadcastDiscarded(A)
         /\ (IsCancelCommand(last', A)
               /\ broadcast_state[A] \in {WAITING_FOR_BROADCAST,
                                          CONFIRM_BROADCAST}) =>
              BroadcastDiscarded(A)
         /\ (IsConfirmPress(last', A)
               /\ broadcast_state[A] # CONFIRM_BROADCAST) =>
              last'.sends = <<>>]_vars

\* What the code does keep: the cancel button always discards the
\* broadcast, and so does /cancel unless a reply conversation is open too.
BroadcastCancelOutsideReply ==
    [][\A A \in Ids :
         /\ (IsCancelPress(last', A)
               /\ broadcast_state[A] = CONFIRM_BROADCAST) =>
              BroadcastDiscarded(A)
         /\ (IsCancelCommand(last', A)
               /\ reply_state[A] # WAITING_FOR_REPLY
               /\ broadcast_state[A] \in {WAITING_FOR_BROADCAST,
                                          CONFIRM_BROADCAST}) =>
              BroadcastDiscarded(A)
         /\ (IsConfirmPress(last', A)
               /\ broadcast_state[A] # CONFIRM_BROADCAST) =>
              last'.sends = <<>>]_vars

\* C16: a /cancel command of A while A awaits the reply text for U is taken
\* by cancel_reply: the pending target is deleted, A's reply conversation
\* ends, no delivery is attempted, no message is appended and no user
\* document changes; the text A sends next is not delivered to U and is no
\* reply.
C16_ReplyCancel ==
    [][\A A \in Ids :
         /\ (IsCancelCommand(last', A)
               /\ reply_state[A] = WAITING_FOR_REPLY) =>
              /\ last'.handler = "cancel_reply"
              /\ last'.arg = user_data[A].reply_to_user
              /\ user_data'[A].reply_to_user = Absent
              /\ reply_state'[A] = NoState
              /\ last'.sends = <<>>
              /\ UNCHANGED <<store_vars, admins, broadcast_state>>
         /\ (last.handler = "cancel_reply" /\ last.actor = A
               /\ IsTextOf(last', A)) =>
              /\ last'.handler # "handle_admin_reply"
              /\ ~HasReplySend(last')
              /\ Attempts(last'.sends, last.arg) = 0
              /\ \A k \in 1..Len(messages') :
                   k > Len(messages) =>
                       messages'[k].direction # "admin_to_user"]_vars

\* C16 witness: admin A cancelled the reply to U and then wrote a text, which
\* went to no one and was not persisted.
C16_Witness ==
    /\ IsTextOf(last, last.actor)
    /\ last.actor \in admins
    /\ last.prev[1] = "cancel_reply"
    /\ last.prev[2] = last.actor
    /\ last.prev[3] \in Senders
    /\ last.sends = <<>>
    /\ messages = <<>>
    /\ reply_state[last.actor] = NoState
    /\ user_data[last.actor].reply_to_user = Absent

\* ---------------------------------- properties: the broadcast conversation

\* The broadcast entry and the preview of the body, both of which show a
\* user count to the admin
ShowsUserCount(ev) ==
    \/ ev.handler = "broadcast_handler" /\ ev.notice = "type_your_message"
    \/ ev.handler = "receive_broadcast_message" /\ ev.notice = "preview"

\* C17: the count shown to the admin at the broadcast entry, and the count
\* shown with the body at the confirmation step, is the number of user
\* documents that are not blocked at that moment. (Violated: get_user_count
\* counts every document, the blocked ones included.)
C17_BroadcastTargetCount ==
    [][ShowsUserCount(last') =>
         last'.count = Cardinality({u \in Ids : users[u] = "active"})]_vars

\* What the code shows instead: the number of all user documents.
CountIsAllDocuments ==
    [][ShowsUserCount(last') =>
         last'.count = Cardinality({u \in Ids : users[u] # "absent"})]_vars

\* ------------------------------------------ properties: admin-only entry

\* C18: a reply button pressed, or "Broadcast" typed, by an identity that is
\* not an admin and has no conversation open is rejected without effect: no
\* conversation opens, no reply target and no broadcast body is stored,
\* nothing is sent and the Store is unchanged; and while an identity has no
\* reply conversation open none of its texts is delivered as a reply, and
\* while it has no broadcast conversation open none is stored as a body.
C18_AdminOnlyEntry ==
    [][\A A \in Ids :
         /\ (A \notin admins /\ reply_state[A] = NoState
               /\ \E U \in Ids : IsReplyPress(last', A, U)) =>
              /\ last'.handler = "reply_callback"
              /\ last'.notice = ""
              /\ last'.sends = <<>>
              /\ UNCHANGED <<conv_vars, store_vars, admins>>
         /\ (A \notin admins /\ reply_state[A] = NoState
               /\ broadcast_state[A] = NoState
               /\ IsTextOf(last', A) /\ last'.text = "Broadcast") =>
              /\ last'.handler = "broadcast_handler"
              /\ last'.notice = "no_permission"
              /\ last'.sends = <<>>
              /\ UNCHANGED <<conv_vars, store_vars, admins>>
         /\ (IsTextOf(last', A) /\ reply_state[A] = NoState) =>
              /\ last'.handler # "handle_admin_reply"
              /\ ~HasReplySend(last')
              /\ user_data'[A].reply_to_user = user_data[A].reply_to_user
         /\ (IsTextOf(last', A) /\ broadcast_state[A] = NoState) =>
              /\ last'.handler # "receive_broadcast_message"
              /\ user_data'[A].broadcast_message = ""
              /\ broadcast_state'[A] # CONFIRM_BROADCAST]_vars

\* C18 witness: an identity that is not an admin pressed a reply button
\* while there are admins, and has no conversation and nothing stored.
C18_Witness ==
    /\ last.handler = "reply_callback"
    /\ last.actor \notin admins
    /\ last.arg \in Senders
    /\ admins # {}
    /\ reply_state[last.actor] = NoState
    /\ broadcast_state[last.actor] = NoState
    /\ user_data[last.actor] = NoUserData

\* ------------------------------------- properties: broadcast re-entry

\* C19: when admin A, whose broadcast conversation awaits the body or the
\* confirmation, types "Broadcast" again, the conversation starts over: it
\* awaits a body afterwards and no body is stored, so that a confirm can
\* only send a body entered after the re-entry. (Violated: broadcast_conv
\* does not search its entry point while a conversation is open; awaiting
\* the body, the text "Broadcast" becomes the body; awaiting the
\* confirmation, it is dropped and the old body stays pending.)
C19_BroadcastReentry ==
    [][\A A \in Ids :
         (A \in admins /\ reply_state[A] = NoState
            /\ broadcast_state[A] \in {WAITING_FOR_BROADCAST, CONFIRM_BROADCAST}
            /\ IsTextOf(last', A) /\ last'.text = "Broadcast") =>
              /\ broadcast_state'[A] = WAITING_FOR_BROADCAST
              /\ user_data'[A].broadcast_message = ""]_vars

\* What the code does instead: awaiting the body, "Broadcast" is stored as
\* the body; awaiting the confirmation, the text changes nothing.
BroadcastReentryIgnored ==
    [][\A A \in Ids :
         (A \in admins /\ reply_state[A] = NoState
            /\ IsTextOf(last', A) /\ last'.text = "Broadcast") =>
              /\ broadcast_state[A] = WAITING_FOR_BROADCAST =>
                   /\ broadcast_state'[A] = CONFIRM_BROADCAST
                   /\ user_data'[A].broadcast_message = "Broadcast"
              /\ broadcast_state[A] = CONFIRM_BROADCAST =>
                   /\ last'.handler = "handle_user_message"
                   /\ UNCHANGED <<conv_vars, store_vars, admins>>]_vars

\* ------------------------------------------------ properties: blocking

Blocked(db_users) == {u \in Ids : db_users[u] = "blocked"}

\* The updates a user originates: /start and a text, whatever becomes of it
IsUserEvent(ev) ==
    ev.handler \in {"start_command", "handle_user_message", "menu_handler"}

\* C20: /start and every user text (relayed with its upsert, refused as
\* blocked, throttled) leave the set of blocked users unchanged, and change
\* no user document but the sender's own, which they can only create
\* unblocked; a block or unblock press changes the user documents only when
\* the presser is an admin, and then only by blocking or unblocking its
\* target; nothing else changes who is blocked.
C20_BlockOnlyByAdmin ==
    [][/\ IsUserEvent(last') =>
            /\ Blocked(users') = Blocked(users)
            /\ \A u \in Ids \ {last'.actor} : users'[u] = users[u]
            /\ users'[last'.actor] # users[last'.actor] =>
                   users[last'.actor] = "absent"
                       /\ users'[last'.actor] = "active"
       /\ last'.handler = "block_callback" =>
            IF last'.actor \in admins
            THEN /\ Blocked(users') = Blocked(users) \cup {last'.arg}
                 /\ \A u \in Ids \ {last'.arg} : users'[u] = users[u]
            ELSE users' = users
       /\ last'.handler = "unblock_callback" =>
            IF last'.actor \in admins
            THEN /\ Blocked(users') = Blocked(users) \ {last'.arg}
                 /\ \A u \in Ids \ {last'.arg} : users'[u] = users[u]
            ELSE users' = users
       /\ Blocked(users') # Blocked(users) =>
            /\ last'.handler \in {"block_callback", "unblock_callback"}
            /\ last'.actor \in admins]_vars

\* C20 witness: a user who was relayed and is now blocked has sent /start
\* and is still blocked.
C20_Witness ==
    /\ last.handler = "start_command"
    /\ last.upserted
    /\ users[last.actor] = "blocked"
    /\ \E k \in 1..Len(messages) : messages[k].user_id = last.actor

\* ------------------------------------------ properties: several admins

\* C21: every input of an identity A (reply button, "Broadcast", text,
\* confirm or cancel button, /cancel) leaves the conversation states, the
\* reply target and the broadcast body of every other identity unchanged;
\* and the text A writes while awaiting a reply text is delivered to A's own
\* target, whatever target another admin holds.
C21_PerAdminIsolation ==
    [][/\ \A B \in Ids :
            B # last'.actor =>
                /\ reply_state'[B] = reply_state[B]
                /\ broadcast_state'[B] = broadcast_state[B]
                /\ user_data'[B] = user_data[B]
       /\ IsReplyBody(last') =>
            /\ Len(last'.sends) = 1
            /\ last'.sends[1].to = user_data[last'.actor].reply_to_user
       /\ IsConfirmOf(last') =>
            last'.text = user_data[last'.actor].broadcast_message]_vars

\* C21 witness: admin A's text has gone to A's target while another admin B
\* still awaits the reply text for a different target.
C21_Witness ==
    /\ IsReplyBody(last)
    /\ last.sends[1].to = last.arg
    /\ \E B \in admins :
         /\ B # last.actor
         /\ reply_state[B] = WAITING_FOR_REPLY
         /\ user_data[B].reply_to_user \notin {Absent, last.arg}

\* ------------------------------------------ properties: admin rights

\* C23: a reply is delivered to a user, and a broadcast is run, only for an
\* identity that is in the admin set when that text or confirm press is
\* handled. (Violated: handle_admin_reply and broadcast_confirm_callback do
\* not look at the admin set, so an identity removed after entering the flow
\* still sends.)
C23_AdminFlowNeedsRights ==
    [][(IsReplyBody(last') \/ IsConfirmOf(last')) =>
         last'.actor \in admins]_vars

\* What the code does keep: a broadcast body is accepted only from a current
\* admin, and the conversations are entered only by one.
BodyAndEntryNeedRights ==
    [][/\ (last'.handler = "receive_broadcast_message"
             /\ last'.notice = "preview") => last'.actor \in admins
       /\ (last'.handler = "reply_callback"
             /\ last'.notice = "type_your_reply") => last'.actor \in admins
       /\ (last'.handler = "broadcast_handler"
             /\ last'.notice = "type_your_message") =>
                last'.actor \in admins]_vars

\* ------------------------------------------- properties: retry_after

\* C24: whenever a check of identity i is denied at time now, the wait
\* returned is floor(oldest + window - now) + 1 seconds, lies between 1 and
\* window + 1, and the stored window of i is the old one pruned; a check of
\* i made at or after the earliest time it was told to wait until, with no
\* admitted check of i since, is admitted; a check of i changes the window
\* of no other identity, and its outcome depends on i's own window alone.
C24_RetryAfter ==
    [][last'.rl_checked =>
         LET i == last'.actor
             kept == Prune(user_messages[i], now)
         IN  /\ last'.result = "false" =>
                  /\ last'.wait = IntSeconds(Min(SeqRange(kept)) + WindowTicks
                                               - now) + 1
                  /\ last'.wait >= 1
                  /\ last'.wait <= RATE_LIMIT_WINDOW + 1
                  /\ user_messages'[i] = kept
             /\ (Len(retry_at[i]) = 1 /\ now >= retry_at[i][1]) =>
                  last'.result = "true"
             /\ \A j \in Ids \ {i} : user_messages'[j] = user_messages[j]
             /\ last'.result = "true" <=> Len(kept) < RATE_LIMIT_MESSAGES]_vars

\* C24 witness: an identity that was told to wait has checked again exactly
\* when the wait was over and was admitted, while another identity has
\* admissions of its own in its window.
C24_Witness ==
    /\ last.rl_checked
    /\ last.result = "true"
    /\ Len(retry_at[last.actor]) = 2
    /\ retry_at[last.actor][1] = now
    /\ retry_at[last.actor][2] = now
    /\ \E j \in Ids \ {last.actor} : user_messages[j] # <<>>

\* ----------------------------------- properties: suspended handlers

\* The identities whose command reached the registry in this step
CommandsBegun ==
    {a \in Ids : pending[a].pc = "none" /\ pending'[a].pc = "answer"}

\* A fan-out that has tried every admin of its copy
FanOutOver(u) ==
    /\ pending[u].pc = "send_message"
    /\ pending[u].done = pending[u].snapshot

\* C22: with the handlers of different identities interleaved at their
\* awaits, every add and remove acts at one instant on the admin set as it
\* is then, in the order of these instants: its result and its effect are
\* those of the sequential registry, the is_admin test of check_admin
\* included, and the set changes in no other step; so two removes in flight
\* never empty a set, each succeeding only while another admin is left. A
\* fan-out keeps the copy of the admin set it took when the loop started and
\* tries each member of it exactly once and nobody else, whatever add or
\* remove happens meanwhile.
C22_RegistryLinearizable ==
    [][/\ \A a \in CommandsBegun :
            LET c == pending'[a]
                x == c.arg
            IN  IF a \notin admins
                THEN c.result = "" /\ admins' = admins
                ELSE IF c.kind = "add"
                THEN IF x \notin admins
                     THEN c.result = "true" /\ admins' = admins \cup {x}
                     ELSE c.result = "false" /\ admins' = admins
                ELSE IF x \in admins /\ Cardinality(admins) > 1
                     THEN c.result = "true" /\ admins' = admins \ {x}
                     ELSE c.result = "false" /\ admins' = admins
       /\ admins' # admins => Cardinality(CommandsBegun) = 1
       /\ admins # {} => admins' # {}
       /\ \A u \in Ids :
            /\ (pending[u].pc = "save_message"
                  /\ pending'[u].pc = "send_message") =>
                 /\ pending'[u].snapshot = admins
                 /\ pending'[u].sends = <<>>
            /\ (pending[u].pc = "send_message"
                  /\ pending'[u].pc = "send_message") =>
                 /\ pending'[u].snapshot = pending[u].snapshot
                 /\ \/ pending'[u].sends = pending[u].sends
                    \/ /\ Len(pending'[u].sends) = Len(pending[u].sends) + 1
                       /\ SubSeq(pending'[u].sends, 1, Len(pending[u].sends))
                              = pending[u].sends
                       /\ pending'[u].sends[Len(pending'[u].sends)].to
                              \in pending[u].snapshot
                       /\ Attempts(pending[u].sends,
                              pending'[u].sends[Len(pending'[u].sends)].to) = 0
            /\ (pending[u].pc = "send_message"
                  /\ pending'[u].pc = "none") =>
                 /\ Len(pending[u].sends) = Cardinality(pending[u].snapshot)
                 /\ \A a \in pending[u].snapshot :
                      Attempts(pending[u].sends, a) = 1]_vars

\* C22 witness: a fan-out has tried both admins of its copy, while a remove
\* that succeeded after the copy was taken is still suspended and a remove
\* of the other admin, begun next, was refused.
C22_Witness ==
    \E u \in Senders, a \in Ids, b \in Ids :
        /\ FanOutOver(u)
        /\ Cardinality(pending[u].snapshot) = 2
        /\ admins # pending[u].snapshot
        /\ Cardinality(admins) = 1
        /\ a # b
        /\ pending[a].pc = "answer" /\ pending[a].kind = "remove"
        /\ pending[a].result = "true"
        /\ pending[b].pc = "answer" /\ pending[b].kind = "remove"
        /\ pending[b].result # "true"
        /\ pending[b].arg # pending[a].arg

====
